---- MODULE Spec2Model ----
(***************************************************************************)
(* Repository/archive lifecycle of borg-archive (src/borg_archive/core.py). *)
(*                                                                         *)
(* The controller BorgArchive is modelled together with the file system   *)
(* it works on and the contract of the external tools it drives (borg,    *)
(* tar | zstd, mksquashfs/unsquashfs).  One invocation of the program is   *)
(*   Enter (constructor and __enter__), one operation, Exit (__exit__).    *)
(***************************************************************************)
EXTENDS Integers, Sequences, FiniteSets, TLC

VARIABLES
    fs,          \* the file system: path -> node
    sidecar,     \* content of <mnt>/.borg-repo, NoPath when the file is absent
    mounted,     \* the repository whose snapshot is FUSE-mounted on mnt, or NoPath
    mountedTag,  \* the snapshot mounted there
    h,           \* the BorgArchive object of the invocation in progress
    pc,          \* "idle" | "entered" (inside the with block) | "done" (operation
                 \* over) | "exited" (the with statement is left, the command returns)
    inv,         \* observation: what the current / last invocation was and how it ended
    ran,         \* observation: external commands run by the current / last invocation
    collapsed,   \* observation: the repository that collapse packed into the archive
                 \* file, while the file is as collapse wrote it
    updates,     \* observation: how many successful untagged updates the archive file
                 \* has taken since create wrote it; -1 when it is not such a file
    made,        \* how many scratch directories tempfile.mkdtemp has handed out, that
                 \* is how many invocations have started: the time of the behaviour
    hasSquashfs, \* shutil.which("mksquashfs")
    T,           \* tag registry handed to generate_next_tag (pure-function check)
    genArg,      \* the tag argument of that call
    genRes,      \* its outcome
    which,       \* the compressors shutil.which finds, among zstd, pigz and gzip
    chosen,      \* the container format last selected, for writing or for reading
    pipeline,    \* a call of run_pipeline: exit code of each stage, check, suppress_stderr
    piped        \* what that call returned or raised

vars == <<fs, sidecar, mounted, mountedTag, h, pc, inv, ran, collapsed, updates, made,
          hasSquashfs, T, genArg, genRes, which, chosen, pipeline, piped>>

mainVars == <<fs, sidecar, mounted, mountedTag, h, pc, inv, ran, collapsed, updates, made,
              hasSquashfs>>
tagVars == <<T, genArg, genRes, which, chosen, pipeline, piped>>
formatVars == <<sidecar, mounted, mountedTag, h, pc, inv, ran, collapsed, updates, made,
                T, genArg, genRes, pipeline, piped>>

-----------------------------------------------------------------------------
(* Bounds of the model *)

MaxScratch == 2

\* stages of a pipeline
MaxStages == 3   \* scratch directories mkdtemp hands out: invocations in one behaviour

\* the contents the source directory can have (0 is the empty directory)
Contents == {1, 2}

-----------------------------------------------------------------------------
(* Paths *)

NoPath == ""                 \* Python's None for a path
ARCHIVE == "a.baz"           \* a user path, normally the archive file
REPO == "repo"               \* a user path, normally an expanded repository
DATA == "data"               \* the source directory
MNT == "mnt"                 \* the mount directory
NONE == "None"
CWD == "."                   \* the working directory the process starts in
OUTPUT == "out"              \* the output directory of extract               \* the relative path str(None) in the working directory

ScratchDirs == <<"tmp1", "tmp2", "tmp3", "tmp4">>
ScratchRepos == <<"tmp1/borg-repo", "tmp2/borg-repo", "tmp3/borg-repo", "tmp4/borg-repo">>
Scratch == 1..MaxScratch

UserPaths == {ARCHIVE, REPO}
Paths == UserPaths \cup {DATA, MNT, NONE}
           \cup {ScratchDirs[i] : i \in Scratch} \cup {ScratchRepos[i] : i \in Scratch}

\* str(path): the text a command line receives for a path attribute
StrPath(p) == IF p = NoPath THEN NONE ELSE p

\* pathlib's Path.parent for the paths of the model
Parent(p) ==
    IF \E i \in Scratch : ScratchRepos[i] = p
    THEN ScratchDirs[CHOOSE i \in Scratch : ScratchRepos[i] = p]
    ELSE CWD

\* Path.name: the last component
PathName(p) == IF \E i \in Scratch : p = ScratchRepos[i] THEN "borg-repo" ELSE p

-----------------------------------------------------------------------------
(* File-system nodes.  kind: "absent" | "dir" | "repo" | "file".            *)
(*   dir : a directory that is no repository; files = 0 when empty         *)
(*   repo: a Borg repository; tags = its snapshots in insertion order,     *)
(*         lock = lock.roster is present                                   *)
(*   file: a regular file; fmt = "tar" (tar | zstd), "squashfs" or         *)
(*         "partial" (truncated / not an archive); top = the leading path  *)
(*         component of the members; inner/tags/lock/files = what was      *)
(*         archived                                                        *)

Absent == [kind |-> "absent", tags |-> <<>>, lock |-> FALSE, files |-> 0,
           fmt |-> "", top |-> "", inner |-> ""]
EmptyDir == [Absent EXCEPT !.kind = "dir"]
PlainDir(n) == [Absent EXCEPT !.kind = "dir", !.files = n]
EmptyRepo == [Absent EXCEPT !.kind = "repo"]

IsDir(n) == n.kind \in {"dir", "repo"}
IsFile(n) == n.kind = "file"
Exists(n) == n.kind # "absent"
IsEmptyDir(n) == n.kind = "dir" /\ n.files = 0

Names(tags) == [i \in 1..Len(tags) |-> tags[i].name]
NameSet(tags) == {tags[i].name : i \in 1..Len(tags)}

-----------------------------------------------------------------------------
(* Contract of the backup engine, as the controller relies on it *)

\* borg init <path>: "ok" creates an empty repository where nothing or an empty
\* directory was; "exists" is exit status 2 with "A repository already exists at";
\* "other" is any other refusal.
BorgInitOutcome(n) ==
    IF n.kind = "repo" THEN "exists"
    ELSE IF n.kind = "absent" \/ IsEmptyDir(n) THEN "ok"
    ELSE "other"

\* borg create <repo>::<tag> <source>: needs a repository that is not locked and a
\* tag name not yet in use.
BorgCreateOk(n, tag) == n.kind = "repo" /\ ~n.lock /\ tag \notin NameSet(n.tags)

\* borg create that records nothing when the source is as the last snapshot has it
BorgCreateSkipsUnchanged(n, tag, src, now) ==
    IF Len(n.tags) > 0 /\ n.tags[Len(n.tags)].content = src.files
    THEN n
    ELSE [n EXCEPT !.tags = Append(n.tags, [name |-> tag, time |-> now, content |-> src.files])]

BorgCreate(n, tag, src, now) ==
    [n EXCEPT !.tags = Append(n.tags, [name |-> tag, time |-> now, content |-> src.files])]

\* borg list --format "{archive}{NL}" <repo>: the names, in insertion order.
BorgListOk(n) == n.kind = "repo"

\* borg delete --force <repo>: destroys the whole repository directory.
BorgDeleteOk(n) == n.kind = "repo" /\ ~n.lock

-----------------------------------------------------------------------------
(* Archive container tools *)

\* tar --format=pax -cv <name> | zstd -9, run in the parent of the directory:
\* every member path starts with the directory's name.
TarCreate(n, name) ==
    [kind |-> "file", fmt |-> "tar", top |-> name, inner |-> n.kind,
     tags |-> n.tags, lock |-> n.lock, files |-> n.files]

\* mksquashfs <dir> <file> -noappend: the members sit at the root of the image.
Mksquashfs(n) ==
    [kind |-> "file", fmt |-> "squashfs", top |-> "", inner |-> n.kind,
     tags |-> n.tags, lock |-> n.lock, files |-> n.files]

\* a file that open(..., "wb") truncated and no tool completed
Partial == [Absent EXCEPT !.kind = "file", !.fmt = "partial"]

\* the first four bytes of a file
Magic(n) ==
    IF n.fmt = "squashfs" THEN "hsqs"
    ELSE IF n.fmt = "tar" THEN "zstd"
    ELSE ""

\* Members of an archive written over what the destination directory holds:
\* same-named repository files are replaced, other files stay.
Overlay(dest, a) ==
    IF a.inner = "repo"
    THEN [EmptyRepo EXCEPT !.tags = a.tags,
                           !.lock = a.lock \/ (dest.kind = "repo" /\ dest.lock),
                           !.files = dest.files]
    ELSE [dest EXCEPT !.kind = IF dest.kind = "repo" THEN "repo" ELSE "dir",
                      !.files = IF a.files > 0 THEN a.files ELSE dest.files]

\* tar -x without --strip-components: the members keep their leading component
TarExtractKeepTop(dest, a, strip) ==
    [dest EXCEPT !.kind = IF dest.kind = "repo" THEN "repo" ELSE "dir",
                 !.files = IF dest.files > 0 THEN dest.files ELSE 1]

\* zstd -d | tar -xf - -C <dest> --strip-components=<strip>: with the leading
\* component stripped the members land in dest itself, otherwise in dest/<top>.
TarExtract(dest, a, strip) ==
    IF strip = 1
    THEN Overlay(dest, a)
    ELSE [dest EXCEPT !.kind = IF dest.kind = "repo" THEN "repo" ELSE "dir",
                      !.files = IF dest.files > 0 THEN dest.files ELSE 1]

\* unsquashfs -dest <dest> <file>
Unsquashfs(dest, a) == Overlay(dest, a)

\* get_best_archiver that falls back on the installed tools for a file without
\* the squashfs magic
get_best_archiver_by_tools(fsys, file_path) ==
    LET is_squashfs == file_path # NoPath /\ IsFile(fsys[file_path])
                         /\ Magic(fsys[file_path]) = "hsqs"
    IN  IF is_squashfs \/ hasSquashfs THEN "squashfs" ELSE "tar"

\* utils.get_best_archiver
get_best_archiver(fsys, file_path) ==
    LET is_squashfs == file_path # NoPath /\ IsFile(fsys[file_path])
                         /\ Magic(fsys[file_path]) = "hsqs"
    IN  IF file_path # NoPath
        THEN (IF is_squashfs THEN "squashfs" ELSE "tar")
        ELSE (IF hasSquashfs THEN "squashfs" ELSE "tar")

Compressors == {"zstd", "pigz", "gzip"}

\* get_best_compressor that tries gzip before zstd and pigz
get_best_compressor_gzip_first(archiver) ==
    IF "gzip" \in which THEN [ok |-> TRUE, compress |-> "gzip -9", err |-> ""]
    ELSE IF "zstd" \in which THEN [ok |-> TRUE, compress |-> "zstd -9", err |-> ""]
    ELSE IF "pigz" \in which THEN [ok |-> TRUE, compress |-> "pigz -9", err |-> ""]
    ELSE [ok |-> FALSE, compress |-> "", err |-> "CommandNotFoundError"]

\* utils.get_best_compressor: [ok, compress, err]
get_best_compressor(archiver) ==
    IF archiver = "tar"
    THEN IF "zstd" \in which THEN [ok |-> TRUE, compress |-> "zstd -9", err |-> ""]
         ELSE IF "pigz" \in which THEN [ok |-> TRUE, compress |-> "pigz -9", err |-> ""]
         ELSE IF "gzip" \in which THEN [ok |-> TRUE, compress |-> "gzip -9", err |-> ""]
         ELSE [ok |-> FALSE, compress |-> "", err |-> "CommandNotFoundError"]
    ELSE IF archiver = "squashfs"
    THEN IF "zstd" \in which
         THEN [ok |-> TRUE, compress |-> "-comp zstd -Xcompression-level 9", err |-> ""]
         ELSE IF "gzip" \in which
         THEN [ok |-> TRUE, compress |-> "-comp gzip -Xcompression-level 9", err |-> ""]
         ELSE [ok |-> FALSE, compress |-> "", err |-> "CommandNotFoundError"]
    ELSE [ok |-> FALSE, compress |-> "", err |-> "RuntimeError"]

\* __create_compressed_archive that reports success and writes no file
create_compressed_archive_skipped(fsys, archive_path, repo_dir, cmdOk) ==
    [ok |-> TRUE, fs |-> fsys, ran |-> {}]

\* BorgArchive.__create_compressed_archive: [ok, fs, ran]
create_compressed_archive(fsys, archive_path, repo_dir, cmdOk) ==
    LET src == fsys[repo_dir]
        out == StrPath(archive_path)
    IN  IF get_best_archiver(fsys, NoPath) = "tar"
        THEN IF archive_path = NoPath \/ IsDir(fsys[archive_path])
             THEN [ok |-> FALSE, fs |-> fsys, ran |-> {}]      \* open() raises
             ELSE IF cmdOk /\ IsDir(src)
             THEN [ok |-> TRUE, ran |-> {<<"tar-c", repo_dir>>},
                   fs |-> [fsys EXCEPT ![archive_path] = TarCreate(src, PathName(repo_dir))]]
             ELSE [ok |-> FALSE, ran |-> {<<"tar-c", repo_dir>>},
                   fs |-> [fsys EXCEPT ![archive_path] = Partial]]
        ELSE IF IsDir(fsys[out]) \/ ~IsDir(src)
             THEN [ok |-> FALSE, fs |-> fsys, ran |-> {<<"mksquashfs", repo_dir>>}]
             ELSE IF cmdOk
             THEN [ok |-> TRUE, ran |-> {<<"mksquashfs", repo_dir>>},
                   fs |-> [fsys EXCEPT ![out] = Mksquashfs(src)]]
             ELSE [ok |-> FALSE, ran |-> {<<"mksquashfs", repo_dir>>},
                   fs |-> [fsys EXCEPT ![out] = Partial]]

\* __extract_compressed_archive that consumes the archive file it has unpacked
extract_compressed_archive_consumes(fsys, archive_path, repo_dir, cmdOk) ==
    LET readable == archive_path # NoPath /\ IsFile(fsys[archive_path])
        a == fsys[archive_path]
        dest == fsys[repo_dir]
    IN  IF ~readable \/ ~cmdOk \/ ~IsDir(dest) \/ a.fmt = "partial"
             \/ (a.fmt = "squashfs" /\ ~hasSquashfs)
        THEN [ok |-> FALSE, fs |-> fsys]
        ELSE [ok |-> TRUE,
              fs |-> [fsys EXCEPT ![repo_dir] = Overlay(dest, a), ![archive_path] = Absent]]

\* BorgArchive.__extract_compressed_archive: [ok, fs]
extract_compressed_archive(fsys, archive_path, repo_dir, cmdOk) ==
    LET readable == archive_path # NoPath /\ IsFile(fsys[archive_path])
        a == fsys[archive_path]
        dest == fsys[repo_dir]
    IN  IF ~readable \/ ~cmdOk \/ ~IsDir(dest)
        THEN [ok |-> FALSE, fs |-> fsys]
        ELSE IF get_best_archiver(fsys, archive_path) = "tar"
        THEN IF a.fmt = "tar"
             THEN [ok |-> TRUE, fs |-> [fsys EXCEPT ![repo_dir] = TarExtract(dest, a, 1)]]
             ELSE [ok |-> FALSE, fs |-> fsys]
        ELSE IF hasSquashfs
             THEN [ok |-> TRUE, fs |-> [fsys EXCEPT ![repo_dir] = Unsquashfs(dest, a)]]
             ELSE [ok |-> FALSE, fs |-> fsys]

-----------------------------------------------------------------------------
(* Process runner: pipelines *)

ExitCodes == {0, 1, 2}

\* what stage i writes on its standard error
StageErr(i) == <<"err", i>>
NoText == <<>>

NoPipeline == [codes |-> <<>>, check |-> FALSE, suppress_stderr |-> FALSE]
NotRun == [called |-> FALSE, raised |-> FALSE, cmd |-> 0, returncode |-> 0,
           stderr |-> NoText, waited |-> 0]

\* the loop over the processes of run_pipeline after i of them have been waited
\* for: the return codes collected and stderr_output
RECURSIVE communicate(_, _, _)
communicate(codes, suppress_stderr, i) ==
    IF i = 0 THEN [return_codes |-> <<>>, stderr_output |-> NoText]
    ELSE LET before == communicate(codes, suppress_stderr, i - 1)
         IN  [return_codes |-> Append(before.return_codes, codes[i]),
              stderr_output |-> IF i = Len(codes) /\ ~suppress_stderr
                                THEN StageErr(i) ELSE NoText]

\* list.index: the first position of a value
index(l, v) == CHOOSE i \in 1..Len(l) : l[i] = v /\ \A j \in 1..(i - 1) : l[j] # v

\* next(code for code in return_codes if code != 0)
first_nonzero(l) == l[CHOOSE i \in 1..Len(l) : l[i] # 0 /\ \A j \in 1..(i - 1) : l[j] = 0]

\* run_pipeline that reports the last stage that failed
run_pipeline_last_failure(codes, check, suppress_stderr) ==
    LET c == communicate(codes, suppress_stderr, Len(codes))
        last == c.return_codes[Len(codes)]
        failed == CHOOSE i \in 1..Len(codes) :
                     codes[i] # 0 /\ \A j \in (i + 1)..Len(codes) : codes[j] = 0
    IN  IF check /\ \E i \in 1..Len(codes) : c.return_codes[i] # 0
        THEN [called |-> TRUE, raised |-> TRUE, cmd |-> failed, returncode |-> last,
              stderr |-> c.stderr_output, waited |-> Len(c.return_codes)]
        ELSE [called |-> TRUE, raised |-> FALSE, cmd |-> Len(codes), returncode |-> last,
              stderr |-> c.stderr_output, waited |-> Len(c.return_codes)]

\* utils.run_pipeline for stages that exit with codes: raised = CalledProcessError,
\* cmd = the position of the command it names, waited = how many stages had
\* terminated when the return codes were looked at
run_pipeline(codes, check, suppress_stderr) ==
    LET c == communicate(codes, suppress_stderr, Len(codes))
        last == c.return_codes[Len(codes)]
    IN  IF check /\ \E i \in 1..Len(codes) : c.return_codes[i] # 0
        THEN [called |-> TRUE, raised |-> TRUE,
              cmd |-> index(c.return_codes, first_nonzero(c.return_codes)),
              returncode |-> last, stderr |-> c.stderr_output,
              waited |-> Len(c.return_codes)]
        ELSE [called |-> TRUE, raised |-> FALSE, cmd |-> Len(codes), returncode |-> last,
              stderr |-> c.stderr_output, waited |-> Len(c.return_codes)]

-----------------------------------------------------------------------------
(* Tag registry accessor *)

NoTag == ""                  \* Python's None for a tag
Decimal == <<"1", "2", "3", "4", "5", "6", "7", "8", "9">>

\* str(n) for the counters the model reaches
str(n) == Decimal[n]

RECURSIVE skip_forward(_, _)
skip_forward(next_tag, tags) ==
    IF str(next_tag) \in tags THEN skip_forward(next_tag + 1, tags) ELSE next_tag

\* generate_next_tag that falls back to the counter when the given tag is taken
generate_next_tag_falls_back(tags, tag) ==
    IF tag # NoTag /\ tag \notin tags THEN [ok |-> TRUE, tag |-> tag]
    ELSE [ok |-> TRUE, tag |-> str(skip_forward(Cardinality(tags) + 1, tags))]

\* generate_next_tag without the loop that skips counters already in use
generate_next_tag_no_skip(tags, tag) ==
    IF tag # NoTag /\ tag \in tags THEN [ok |-> FALSE, tag |-> tag]
    ELSE IF tag # NoTag THEN [ok |-> TRUE, tag |-> tag]
    ELSE [ok |-> TRUE, tag |-> str(Cardinality(tags) + 1)]

\* BorgArchive.generate_next_tag over tags = set(get_tag_list()):
\* [ok, tag]; ok = FALSE is DuplicateTagException
generate_next_tag(tags, tag) ==
    IF tag # NoTag /\ tag \in tags THEN [ok |-> FALSE, tag |-> tag]
    ELSE IF tag # NoTag THEN [ok |-> TRUE, tag |-> tag]
    ELSE [ok |-> TRUE, tag |-> str(skip_forward(Cardinality(tags) + 1, tags))]

\* the tag names the registries of the pure-function check are drawn from
TagUniverse == {"1", "2", "3", "4", "x", "02"}

NotCalled == [called |-> FALSE, ok |-> FALSE, tag |-> NoTag]

NotChosen == [mode |-> "none", archiver |-> "", compress |-> "", err |-> ""]

-----------------------------------------------------------------------------
(* The controller *)

NoHandle == [archive_path |-> NoPath, borg_dir |-> NoPath, borg_dir_is_temp |-> FALSE,
             is_mounted |-> FALSE, sqfs_is_mounted |-> FALSE, temp_dir |-> NoPath]

NoInv == [op |-> "none", err |-> "", ctor |-> NoPath, scratch |-> NoPath,
          temp |-> FALSE, arg |-> NoPath, flag |-> FALSE, tag |-> NoTag,
          pre |-> Absent, preArc |-> Absent, out |-> 0,
          side |-> NoPath, mtd |-> NoPath, repo |-> NoPath, sync |-> FALSE,
          clean |-> FALSE, cmds |-> {}, src |-> Absent, steps |-> <<>>, cwd |-> CWD]

\* the error kinds of exceptions.py: BorgArchiveError and its subclasses
BorgArchiveError ==
    {"BorgArchiveError", "CollapseError", "CommandNotFoundError", "DuplicateTagException",
     "ArchiveError", "CreationError", "MountError", "ValidationError", "ExpandError",
     "RepoError", "ExtractError", "UpdateError", "ConfigurationError"}

NotCollapsed == [valid |-> FALSE, repo |-> Absent]

\* what an operation leaves behind: file system, handle, error kind ("" = returned
\* normally) and the commands it ran
Res(fsys, hd, err, cmds) ==
    [fs |-> fsys, h |-> hd, err |-> err, ran |-> cmds, out |-> 0, steps |-> <<>>,
     cwd |-> CWD]

\* a working directory that stays where a failed command left it
chdir_no_finally(cwd, dir, cmdOk) == IF cmdOk THEN cwd ELSE dir

\* cwd = os.getcwd(); os.chdir(dir); try: <command> finally: os.chdir(cwd):
\* the working directory once the statement is left, normally or by an exception
chdir_finally(cwd, dir, cmdOk) ==
    LET saved == cwd     \* cwd = os.getcwd()
    IN  saved            \* finally: os.chdir(cwd), whether the command raised or not

\* an outcome whose last command ran inside such a statement
Cd(r, dir, cmdOk) == [r EXCEPT !.cwd = chdir_finally(@, dir, cmdOk)]

\* dir_is_repo that takes every refusal of borg init for "already a repository"
dir_is_repo_any_failure(fsys, repo_path) ==
    LET outcome == BorgInitOutcome(fsys[repo_path])
    IN  [res |-> outcome # "ok",
         fs |-> IF outcome = "ok" THEN [fsys EXCEPT ![repo_path] = EmptyRepo] ELSE fsys]

\* BorgArchive.dir_is_repo: the probe runs borg init on the candidate
dir_is_repo(fsys, repo_path) ==
    LET outcome == BorgInitOutcome(fsys[repo_path])
    IN  [res |-> outcome = "exists",
         fs |-> IF outcome = "ok" THEN [fsys EXCEPT ![repo_path] = EmptyRepo] ELSE fsys]

\* BorgArchive.__remove_temp_dir: shutil.rmtree of the path when it exists
remove_temp_dir(fsys, tmp_dir_path) ==
    [p \in Paths |->
        IF p = tmp_dir_path
             \/ \E i \in Scratch : tmp_dir_path = ScratchDirs[i] /\ p = ScratchRepos[i]
        THEN Absent
        ELSE fsys[p]]

\* BorgArchive.__delete_borg_repo: borg delete --force, failures ignored
delete_borg_repo(fsys, borg_dir, cmdOk) ==
    IF cmdOk /\ BorgDeleteOk(fsys[borg_dir])
    THEN [fsys EXCEPT ![borg_dir] = Absent]
    ELSE fsys

\* tempfile.mkdtemp: a name never handed out before
mkdtemp == made + 1

\* BorgArchive.__init__ followed by BorgArchive.__enter__
Enter(archive_or_repo_path, repo_path0) ==
    /\ pc = "idle"
    /\ made < MaxScratch
    /\ made' = made + 1
    /\ LET t == mkdtemp
           given_dir == archive_or_repo_path # NoPath /\ IsDir(fs[archive_or_repo_path])
                          /\ repo_path0 = NoPath
           repo_path == IF given_dir THEN archive_or_repo_path ELSE repo_path0
           archive_path == IF given_dir THEN NoPath ELSE archive_or_repo_path
           fs1 == [fs EXCEPT ![ScratchDirs[t]] = EmptyDir]
           probe == dir_is_repo(fs1, repo_path)
           hd == [NoHandle EXCEPT !.archive_path = archive_path,
                                  !.temp_dir = ScratchDirs[t]]
           iv == [NoInv EXCEPT !.op = "enter", !.ctor = archive_or_repo_path,
                               !.scratch = ScratchDirs[t], !.arg = repo_path,
                               !.pre = fs[StrPath(repo_path)]]
       IN  IF repo_path # NoPath
           THEN IF probe.res
                THEN /\ h' = [hd EXCEPT !.borg_dir = repo_path, !.borg_dir_is_temp = FALSE]
                     /\ fs' = probe.fs
                     /\ pc' = "entered"
                     /\ inv' = iv
                     /\ ran' = {<<"init", repo_path>>}
                ELSE /\ h' = NoHandle                      \* RepoError leaves __enter__
                     /\ fs' = probe.fs
                     /\ pc' = "exited"
                     /\ inv' = [iv EXCEPT !.err = "RepoError"]
                     /\ ran' = {<<"init", repo_path>>}
           ELSE /\ h' = [hd EXCEPT !.borg_dir = ScratchRepos[t], !.borg_dir_is_temp = TRUE]
                /\ fs' = [fs1 EXCEPT ![ScratchRepos[t]] = EmptyDir]
                /\ pc' = "entered"
                /\ inv' = [iv EXCEPT !.temp = TRUE]
                /\ ran' = {}
    /\ UNCHANGED <<sidecar, mounted, mountedTag, collapsed, updates, hasSquashfs>>
    /\ UNCHANGED tagVars

\* __exit__ that deletes the temporary repository and leaves the scratch directory
teardown_keeps_scratch(fsys, hd, delOk) ==
    IF ~hd.is_mounted /\ hd.borg_dir_is_temp
    THEN delete_borg_repo(fsys, hd.borg_dir, delOk)
    ELSE fsys

\* __exit__ that deletes the working repository whether or not it is temporary
teardown_deletes_working_repo(fsys, hd, delOk) ==
    IF ~hd.is_mounted
    THEN remove_temp_dir(delete_borg_repo(fsys, StrPath(hd.borg_dir), TRUE), hd.temp_dir)
    ELSE fsys

\* __exit__ that tears down also when the archive has been mounted
teardown_ignores_mount(fsys, hd, delOk) ==
    remove_temp_dir(
        IF hd.borg_dir_is_temp THEN [fsys EXCEPT ![hd.borg_dir] = Absent] ELSE fsys,
        hd.temp_dir)

\* BorgArchive.__exit__ (DEBUG is False)
teardown(fsys, hd, delOk) ==
    IF ~hd.is_mounted
    THEN remove_temp_dir(
             IF hd.borg_dir_is_temp THEN delete_borg_repo(fsys, hd.borg_dir, delOk) ELSE fsys,
             hd.temp_dir)
    ELSE fsys

Exit ==
    /\ pc = "done"
    /\ \E delOk \in BOOLEAN :
         /\ fs' = teardown(fs, h, delOk)
         /\ ran' = IF ~h.is_mounted /\ h.borg_dir_is_temp
                   THEN ran \cup {<<"delete", h.borg_dir>>} ELSE ran
    /\ pc' = "exited"
    /\ h' = NoHandle
    /\ collapsed' = IF fs'[ARCHIVE] = fs[ARCHIVE] THEN collapsed ELSE NotCollapsed
    /\ updates' = IF fs'[ARCHIVE] = fs[ARCHIVE] THEN updates ELSE -1
    /\ UNCHANGED <<sidecar, mounted, mountedTag, inv, made, hasSquashfs>>
    /\ UNCHANGED tagVars

\* the command function of cli.py returns and the process ends
Return ==
    /\ pc = "exited"
    /\ pc' = "idle"
    /\ inv' = NoInv
    /\ ran' = {}
    /\ UNCHANGED <<fs, sidecar, mounted, mountedTag, h, collapsed, updates, made, hasSquashfs>>
    /\ UNCHANGED tagVars

\* the body of the with block has run one operation
Finish(r, iv) ==
    /\ pc = "entered"
    /\ fs' = r.fs
    /\ h' = r.h
    /\ ran' = ran \cup r.ran
    /\ inv' = [iv EXCEPT !.err = r.err, !.scratch = inv.scratch, !.ctor = inv.ctor,
                         !.temp = inv.temp, !.out = r.out, !.side = sidecar,
                         !.mtd = mounted, !.repo = r.h.borg_dir, !.cmds = r.ran,
                         !.steps = r.steps, !.cwd = r.cwd]
    /\ collapsed' = IF iv.op = "collapse" /\ r.err = "" /\ r.h.archive_path = ARCHIVE
                     THEN [valid |-> TRUE, repo |-> iv.pre]
                     ELSE IF r.fs[ARCHIVE] = fs[ARCHIVE] THEN collapsed ELSE NotCollapsed
    /\ updates' = IF iv.op = "create" /\ r.err = "" /\ ~iv.flag /\ h.archive_path = ARCHIVE
                   THEN 0
                   ELSE IF /\ iv.op = "update" /\ r.err = "" /\ iv.tag = NoTag /\ ~iv.sync
                           /\ h.borg_dir_is_temp /\ h.archive_path = ARCHIVE /\ updates >= 0
                   THEN updates + 1
                   ELSE IF r.fs[ARCHIVE] = fs[ARCHIVE] THEN updates ELSE -1
    /\ pc' = "done"
    /\ UNCHANGED <<made, hasSquashfs>>
    /\ UNCHANGED tagVars

\* source_dir.is_dir() without the check: every path passes
source_is_dir_unchecked(fsys, source_dir) == TRUE

\* source_dir.is_dir(): the validation that opens create and update
source_is_dir(fsys, source_dir) == IsDir(fsys[source_dir])

\* create that writes the archive file before it takes the initial snapshot
create_compress_first(fsys, hd, source_dir, expanded, fail, srcInCwd, now) ==
    IF ~source_is_dir(fsys, source_dir)
    THEN Res(fsys, hd, "ValidationError", {})
    ELSE
    LET hd1 == IF expanded
               THEN [hd EXCEPT !.borg_dir = hd.archive_path, !.borg_dir_is_temp = FALSE]
               ELSE hd
        target == StrPath(hd1.borg_dir)
        c1 == {<<"init", target>>}
        c2 == c1 \cup {<<"create", target>>}
        fs1 == [fsys EXCEPT ![target] = EmptyRepo]
        z == create_compressed_archive(fs1, hd1.archive_path, hd1.borg_dir, fail # 3)
        fs2 == [z.fs EXCEPT ![target] = BorgCreate(@, "1", fsys[source_dir], now)]
    IN  IF fail = 1 \/ BorgInitOutcome(fsys[target]) # "ok"
        THEN Res(fsys, hd1, "CreationError", c1)
        ELSE IF expanded
        THEN Res([fs1 EXCEPT ![target] = BorgCreate(@, "1", fsys[source_dir], now)],
                 hd1, "", c2)
        ELSE IF ~z.ok
        THEN Res(z.fs, hd1, "CreationError", c1 \cup z.ran)
        ELSE IF fail = 2 \/ ~BorgCreateOk(z.fs[target], "1")
        THEN Res(z.fs, hd1, "CreationError", c2 \cup z.ran)
        ELSE Res(fs2, hd1, "", c2 \cup z.ran)

\* BorgArchive.create; fail = the command that fails (0 none, 1 init, 2 create,
\* 3 compression); srcInCwd = source_dir.parent is the working directory
create(fsys, hd, source_dir, expanded, fail, srcInCwd, now) ==
    IF ~source_is_dir(fsys, source_dir)
    THEN Res(fsys, hd, "ValidationError", {})
    ELSE
    LET hd1 == IF expanded
               THEN [hd EXCEPT !.borg_dir = hd.archive_path, !.borg_dir_is_temp = FALSE]
               ELSE hd
        target == StrPath(hd1.borg_dir)
        c1 == {<<"init", target>>}
        c2 == c1 \cup {<<"create", target>>}
        fs1 == [fsys EXCEPT ![target] = EmptyRepo]
        fs2 == [fs1 EXCEPT ![target] = BorgCreate(@, "1", fsys[source_dir], now)]
        z == create_compressed_archive(fs2, hd1.archive_path, hd1.borg_dir, fail # 3)
    IN  IF fail = 1 \/ BorgInitOutcome(fsys[target]) # "ok"
        THEN Res(fsys, hd1, "CreationError", c1)
        ELSE IF fail = 2 \/ (hd1.borg_dir = NoPath /\ ~srcInCwd)
                         \/ ~BorgCreateOk(fs1[target], "1")
        THEN Cd(Res(fs1, hd1, "CreationError", c2), Parent(source_dir), FALSE)
        ELSE IF expanded
        THEN Cd(Res(fs2, hd1, "", c2), Parent(source_dir), TRUE)
        ELSE Cd(Cd(Res(z.fs, hd1, IF z.ok THEN "" ELSE "CreationError", c2 \cup z.ran),
                   Parent(source_dir), TRUE),
                Parent(target), z.ok)

Create(source_dir, expanded) ==
    /\ \E fail \in 0..3, srcInCwd \in BOOLEAN :
         Finish(create(fs, h, source_dir, expanded, fail, srcInCwd, made),
                [NoInv EXCEPT !.op = "create", !.arg = source_dir, !.flag = expanded,
                              !.src = fs[source_dir],
                              !.preArc = fs[ARCHIVE]])
    /\ UNCHANGED <<sidecar, mounted, mountedTag>>

\* pathlib.Path.mkdir(parents=True, exist_ok=True)
ensure_dir(fsys, path) ==
    IF fsys[path].kind = "absent" THEN [fsys EXCEPT ![path] = EmptyDir] ELSE fsys

\* collapse without the repository-validity probe
collapse_unprobed(fsys, hd, repo_dir, retain_repo, fail, delOk) ==
    LET hd1 == [hd EXCEPT !.borg_dir = repo_dir]
        z == create_compressed_archive(fsys, hd.archive_path, repo_dir, fail # 1)
    IN  IF ~z.ok
        THEN Res(z.fs, hd1, "ArchiveError", z.ran)
        ELSE IF retain_repo
        THEN Res(z.fs, hd1, "", z.ran)
        ELSE Res(remove_temp_dir(delete_borg_repo(z.fs, repo_dir, delOk), repo_dir),
                 hd1, "", z.ran \cup {<<"delete", repo_dir>>})

\* BorgArchive.collapse; fail = 1: the compression fails
collapse(fsys, hd, repo_dir, retain_repo, fail, delOk) ==
    LET probe == dir_is_repo(fsys, repo_dir)
        c1 == {<<"init", repo_dir>>}
        hd1 == [hd EXCEPT !.borg_dir = repo_dir]
        z == create_compressed_archive(probe.fs, hd.archive_path, repo_dir, fail # 1)
    IN  IF ~probe.res
        THEN Res(probe.fs, hd, "CollapseError", c1)
        ELSE IF ~z.ok
        THEN Cd(Res(z.fs, hd1, "ArchiveError", c1 \cup z.ran), Parent(repo_dir), FALSE)
        ELSE IF retain_repo
        THEN Cd(Res(z.fs, hd1, "", c1 \cup z.ran), Parent(repo_dir), TRUE)
        ELSE Cd(Res(remove_temp_dir(delete_borg_repo(z.fs, repo_dir, delOk), repo_dir),
                    hd1, "", c1 \cup z.ran \cup {<<"delete", repo_dir>>}),
                Parent(repo_dir), TRUE)

Collapse(repo_dir, retain_repo) ==
    /\ \E fail \in 0..1, delOk \in BOOLEAN :
         Finish(collapse(fs, h, repo_dir, retain_repo, fail, delOk),
                [NoInv EXCEPT !.op = "collapse", !.arg = repo_dir, !.flag = retain_repo,
                              !.pre = fs[repo_dir], !.preArc = fs[ARCHIVE]])
    /\ UNCHANGED <<sidecar, mounted, mountedTag>>

\* BorgArchive.expand; fail = 1: the decompression fails
expand(fsys, hd, repo_dir, fail) ==
    LET fs1 == ensure_dir(fsys, repo_dir)
        z == extract_compressed_archive(fs1, hd.archive_path, repo_dir, fail # 1)
    IN  IF IsFile(fsys[repo_dir])
        THEN Res(fsys, hd, "FileExistsError", {})
        ELSE Res(z.fs, hd, IF z.ok THEN "" ELSE "ExpandError",
                 {<<"expand", repo_dir>>})

Expand(repo_dir) ==
    /\ \E fail \in 0..1 :
         Finish(expand(fs, h, repo_dir, fail),
                [NoInv EXCEPT !.op = "expand", !.arg = repo_dir, !.pre = fs[repo_dir],
                              !.preArc = fs[ARCHIVE]])
    /\ UNCHANGED <<sidecar, mounted, mountedTag>>

\* BorgArchive.get_tag_list: [ok, tags]; ok = FALSE when borg list fails
get_tag_list(n) ==
    IF BorgListOk(n) THEN [ok |-> TRUE, tags |-> Names(n.tags)]
    ELSE [ok |-> FALSE, tags |-> <<>>]

\* get_most_recent_tag that takes the first element of the list
get_oldest_tag(n) ==
    LET l == get_tag_list(n)
    IN  IF l.ok /\ Len(l.tags) > 0 THEN [ok |-> TRUE, tag |-> l.tags[1]]
        ELSE [ok |-> FALSE, tag |-> NoTag]

\* get_most_recent_tag that answers the empty tag for an empty list
get_most_recent_tag_of_empty(n) ==
    LET l == get_tag_list(n)
    IN  IF l.ok THEN [ok |-> TRUE,
                      tag |-> IF Len(l.tags) > 0 THEN l.tags[Len(l.tags)] ELSE NoTag]
        ELSE [ok |-> FALSE, tag |-> NoTag]

\* BorgArchive.get_most_recent_tag: [ok, tag]; ok = FALSE when the command fails
\* or the list is empty (IndexError)
get_most_recent_tag(n) ==
    LET l == get_tag_list(n)
    IN  IF l.ok /\ Len(l.tags) > 0 THEN [ok |-> TRUE, tag |-> l.tags[Len(l.tags)]]
        ELSE [ok |-> FALSE, tag |-> NoTag]

\* the snapshot of a repository with a given name
Snapshot(n, tag) == CHOOSE s \in {n.tags[i] : i \in 1..Len(n.tags)} : s.name = tag

\* the repository extract and mount read once the archive file is expanded
ReadRepo(fsys, hd) ==
    IF hd.borg_dir_is_temp
    THEN extract_compressed_archive(fsys, hd.archive_path, hd.borg_dir, TRUE).fs[hd.borg_dir]
    ELSE fsys[hd.borg_dir]

\* BorgArchive.extract into an output directory that is or can be made a directory;
\* out = the content that lands there; fail = 1: the decompression fails, 2: borg extract fails
extract(fsys, hd, tag, fail) ==
    LET fs1 == fsys
        x == IF hd.borg_dir_is_temp THEN expand(fs1, hd, hd.borg_dir, fail)
             ELSE Res(fs1, hd, "", {})
        repo == x.fs[hd.borg_dir]
        recent == get_most_recent_tag(repo)
        tag1 == IF tag = NoTag THEN recent.tag ELSE tag
        c1 == x.ran \cup (IF tag = NoTag THEN {<<"list", hd.borg_dir>>} ELSE {})
        c2 == c1 \cup {<<"extract", hd.borg_dir>>}
    IN  IF x.err # ""
        THEN Res(x.fs, hd, "ExtractError", x.ran)
        ELSE IF tag = NoTag /\ ~recent.ok
        THEN Cd(Res(x.fs, hd, "ExtractError", c1), OUTPUT, FALSE)
        ELSE IF fail = 2 \/ repo.kind # "repo" \/ tag1 \notin NameSet(repo.tags)
        THEN Cd(Res(x.fs, hd, "ExtractError", c2), OUTPUT, FALSE)
        ELSE Cd([Res(x.fs, hd, "", c2) EXCEPT !.out = Snapshot(repo, tag1).content],
                OUTPUT, TRUE)

Extract(tag) ==
    /\ \E fail \in 0..2 :
         Finish(extract(fs, h, tag, fail),
                [NoInv EXCEPT !.op = "extract", !.tag = tag,
                              !.pre = ReadRepo(fs, h),
                              !.preArc = fs[ARCHIVE]])
    /\ UNCHANGED <<sidecar, mounted, mountedTag>>

\* BorgArchive.list_tags; fail = 1: the decompression fails, 2: borg list fails
list_tags(fsys, hd, fail) ==
    LET x == IF hd.borg_dir_is_temp
             THEN extract_compressed_archive(fsys, hd.archive_path, hd.borg_dir, fail # 1)
             ELSE [ok |-> TRUE, fs |-> fsys]
        c1 == IF hd.borg_dir_is_temp THEN {<<"expand", hd.borg_dir>>} ELSE {}
        l == get_tag_list(x.fs[hd.borg_dir])
    IN  IF ~x.ok
        THEN Res(x.fs, hd, "ArchiveError", c1)
        ELSE Res(x.fs, hd, IF fail # 2 /\ l.ok THEN "" ELSE "ArchiveError",
                 c1 \cup {<<"list", hd.borg_dir>>})

ListTags ==
    /\ \E fail \in 0..2 :
         Finish(list_tags(fs, h, fail),
                [NoInv EXCEPT !.op = "list", !.preArc = fs[ARCHIVE]])
    /\ UNCHANGED <<sidecar, mounted, mountedTag>>

\* what mount and unmount leave behind: as Res, with the sidecar file and the
\* FUSE mount on the mount directory
MRes(fsys, hd, err, cmds, side, mtd, mtag) ==
    [fs |-> fsys, h |-> hd, err |-> err, ran |-> cmds, out |-> 0, steps |-> <<>>,
     cwd |-> CWD, sidecar |-> side, mounted |-> mtd, mountedTag |-> mtag]

\* BorgArchive.mount; fail = 1: the decompression fails, 2: borg mount fails
mount(fsys, hd, side, mtd, mtag, mount_dir, tag, fail) ==
    LET fs1 == ensure_dir(fsys, mount_dir)
        side1 == IF hd.borg_dir_is_temp THEN hd.borg_dir ELSE side
        x == IF hd.borg_dir_is_temp
             THEN extract_compressed_archive(fs1, hd.archive_path, hd.borg_dir, fail # 1)
             ELSE [ok |-> TRUE, fs |-> fs1]
        c1 == IF hd.borg_dir_is_temp THEN {<<"expand", hd.borg_dir>>} ELSE {}
        repo == x.fs[hd.borg_dir]
        recent == get_most_recent_tag(repo)
        tag1 == IF tag = NoTag THEN recent.tag ELSE tag
        c2 == c1 \cup (IF tag = NoTag THEN {<<"list", hd.borg_dir>>} ELSE {})
        c3 == c2 \cup {<<"mount", hd.borg_dir>>}
    IN  IF hd.borg_dir_is_temp /\ mtd # NoPath
        THEN MRes(fs1, hd, "OSError", {}, side, mtd, mtag)   \* read-only mount point
        ELSE IF ~x.ok
        THEN MRes(x.fs, hd, "MountError", c1, side1, mtd, mtag)
        ELSE IF tag = NoTag /\ ~recent.ok
        THEN MRes(x.fs, hd, "MountError", c2, side1, mtd, mtag)
        ELSE IF fail = 2 \/ repo.kind # "repo" \/ tag1 \notin NameSet(repo.tags)
                         \/ mtd # NoPath
        THEN MRes(x.fs, hd, "MountError", c3, side1, mtd, mtag)
        ELSE MRes([x.fs EXCEPT ![hd.borg_dir].lock = TRUE],
                  [hd EXCEPT !.is_mounted = TRUE], "", c3, side1, hd.borg_dir, tag1)

Mount(mount_dir, tag) ==
    /\ \E fail \in 0..2 :
         LET r == mount(fs, h, sidecar, mounted, mountedTag, mount_dir, tag, fail)
         IN  /\ Finish(r, [NoInv EXCEPT !.op = "mount", !.arg = mount_dir, !.tag = tag,
                                        !.pre = ReadRepo(fs, h),
                                        !.preArc = fs[ARCHIVE]])
             /\ sidecar' = r.sidecar
             /\ mounted' = r.mounted
             /\ mountedTag' = r.mountedTag

\* borg umount: the engine releases its lock on the repository it had mounted
BorgUmount(fsys, mtd) ==
    IF fsys[mtd].kind = "repo" THEN [fsys EXCEPT ![mtd].lock = FALSE] ELSE fsys

\* the steps of unmount, in the order of its code
UnmountSteps == <<"borg umount", "read sidecar", "umount squashfs", "cleanup borg files",
                  "rmtree", "unlink sidecar">>

Steps(r, n) == [r EXCEPT !.steps = SubSeq(UnmountSteps, 1, n)]

\* unmount that removes the sidecar file before the directory it names
unmount_unlinks_first(fsys, hd, side, mtd, mtag, mount_dir, fail) ==
    LET c1 == {<<"umount", mount_dir>>}
        c2 == c1 \cup {<<"umount-squashfs", side>>, <<"info", side>>}
        fs1 == BorgUmount(fsys, mtd)
    IN  IF ~Exists(fsys[mount_dir])
        THEN MRes(fsys, hd, "MountError", {}, side, mtd, mtag)
        ELSE IF fail = 1 \/ mtd = NoPath
        THEN Steps(MRes(fsys, hd, "MountError", c1, side, mtd, mtag), 1)
        ELSE IF side # NoPath
        THEN IF fail = 2 /\ Exists(fs1[side])
             THEN [MRes(fs1, hd, "MountError", c2, NoPath, NoPath, NoTag)
                     EXCEPT !.steps = <<"borg umount", "read sidecar", "umount squashfs",
                                        "cleanup borg files", "unlink sidecar", "rmtree">>]
             ELSE [MRes(remove_temp_dir(fs1, side), hd, "", c2, NoPath, NoPath, NoTag)
                     EXCEPT !.steps = <<"borg umount", "read sidecar", "umount squashfs",
                                        "cleanup borg files", "unlink sidecar", "rmtree">>]
        ELSE Steps(MRes(fs1, hd, "", c1, side, NoPath, NoTag), 1)

\* unmount that cleans up what the sidecar records although borg umount failed
unmount_cleans_after_failure(fsys, hd, side, mtd, mtag, mount_dir, fail) ==
    LET c1 == {<<"umount", mount_dir>>}
        fs1 == BorgUmount(fsys, mtd)
    IN  IF ~Exists(fsys[mount_dir])
        THEN MRes(fsys, hd, "MountError", {}, side, mtd, mtag)
        ELSE IF fail = 1 \/ mtd = NoPath
        THEN Steps(MRes(IF side # NoPath THEN remove_temp_dir(fsys, side) ELSE fsys,
                        hd, "MountError", c1, NoPath, mtd, mtag), 1)
        ELSE IF side # NoPath
        THEN Steps(MRes(remove_temp_dir(fs1, side), hd, "", c1, NoPath, NoPath, NoTag), 6)
        ELSE Steps(MRes(fs1, hd, "", c1, side, NoPath, NoTag), 1)

\* BorgArchive.unmount; fail = 1: borg umount fails, 2: shutil.rmtree of the
\* recorded directory fails
unmount(fsys, hd, side, mtd, mtag, mount_dir, fail) ==
    LET c1 == {<<"umount", mount_dir>>}
        c2 == c1 \cup {<<"umount-squashfs", side>>, <<"info", side>>}
        fs1 == BorgUmount(fsys, mtd)
    IN  IF ~Exists(fsys[mount_dir])
        THEN MRes(fsys, hd, "MountError", {}, side, mtd, mtag)
        ELSE IF fail = 1 \/ mtd = NoPath
        THEN Steps(MRes(fsys, hd, "MountError", c1, side, mtd, mtag), 1)
        ELSE IF side # NoPath
        THEN IF fail = 2 /\ Exists(fs1[side])
             THEN Steps(MRes(fs1, hd, "MountError", c2, side, NoPath, NoTag), 5)
             ELSE Steps(MRes(remove_temp_dir(fs1, side), hd, "", c2,
                             NoPath, NoPath, NoTag), 6)
        ELSE Steps(MRes(fs1, hd, "", c1, side, NoPath, NoTag), 1)

Unmount(mount_dir) ==
    /\ \E fail \in 0..2 :
         LET r == unmount(fs, h, sidecar, mounted, mountedTag, mount_dir, fail)
         IN  /\ Finish(r, [NoInv EXCEPT !.op = "unmount", !.arg = mount_dir,
                                        !.pre = fs[StrPath(mounted)],
                                        !.src = fs[StrPath(sidecar)],
                                        !.preArc = fs[ARCHIVE]])
             /\ sidecar' = r.sidecar
             /\ mounted' = r.mounted
             /\ mountedTag' = r.mountedTag

\* a lock test that never finds the lock file
is_locked_never(n) == FALSE

\* os.path.isfile(self.borg_dir / "lock.roster")
is_locked(n) == n.kind = "repo" /\ n.lock

\* an update that lets what was raised inside the try block through as it is
update_reraise_raw(kind) == kind

\* the except clause that closes BorgArchive.update: whatever was raised inside
\* the try block leaves update as UpdateError
update_reraise(kind) == "UpdateError"

\* BorgArchive.update; fail = 1: the decompression fails, 2: borg create fails,
\* 3: the compression fails
update(fsys, hd, source_dir_or_repo, tag, fail, now) ==
    IF ~source_is_dir(fsys, source_dir_or_repo)
    THEN Res(fsys, hd, "ValidationError", {})
    ELSE
    LET probe == dir_is_repo(fsys, source_dir_or_repo)
        updating_archive_from_repo == probe.res
        hd1 == IF updating_archive_from_repo
               THEN [hd EXCEPT !.borg_dir = source_dir_or_repo, !.borg_dir_is_temp = FALSE]
               ELSE hd
        updating_archive == hd.archive_path # NoPath
        c0 == {<<"init", source_dir_or_repo>>}
        x == IF hd1.borg_dir_is_temp
             THEN extract_compressed_archive(probe.fs, hd.archive_path, hd1.borg_dir, fail # 1)
             ELSE [ok |-> TRUE, fs |-> probe.fs]
        c1 == c0 \cup (IF hd1.borg_dir_is_temp THEN {<<"expand", hd1.borg_dir>>} ELSE {})
        repo == x.fs[hd1.borg_dir]
        l == get_tag_list(repo)
        c2 == c1 \cup {<<"list", hd1.borg_dir>>}
        g == generate_next_tag({l.tags[i] : i \in 1..Len(l.tags)}, tag)
        c3 == c2 \cup {<<"create", hd1.borg_dir>>}
        fs2 == IF updating_archive_from_repo THEN x.fs
               ELSE [x.fs EXCEPT ![hd1.borg_dir] =
                        BorgCreate(@, g.tag, probe.fs[source_dir_or_repo], now)]
        c4 == IF updating_archive_from_repo THEN c1 ELSE c3
        z == create_compressed_archive(fs2, hd.archive_path, hd1.borg_dir, fail # 3)
        src_parent == Parent(source_dir_or_repo)
    IN  IF ~x.ok
        THEN Res(x.fs, hd1, "UpdateError", c1)
        ELSE IF ~updating_archive_from_repo /\ is_locked(repo)
        THEN Res(x.fs, hd1, update_reraise("UpdateError"), c1)
        ELSE IF ~updating_archive_from_repo /\ ~l.ok
        THEN Cd(Res(x.fs, hd1, update_reraise("CalledProcessError"), c2), src_parent, FALSE)
        ELSE IF ~updating_archive_from_repo /\ ~g.ok
        THEN Cd(Res(x.fs, hd1, update_reraise("DuplicateTagException"), c2),
                src_parent, FALSE)
        ELSE IF ~updating_archive_from_repo /\ (fail = 2 \/ ~BorgCreateOk(repo, g.tag))
        THEN Cd(Res(x.fs, hd1, update_reraise("CalledProcessError"), c3), src_parent, FALSE)
        ELSE IF ~updating_archive
        THEN Cd(Res(fs2, hd1, "", c4), src_parent, TRUE)
        ELSE Cd(Cd(Res(z.fs, hd1, IF z.ok THEN "" ELSE update_reraise("ArchiveError"),
                       c4 \cup z.ran),
                   src_parent, TRUE),
                Parent(hd1.borg_dir), z.ok)

\* the repository an update works on once it is materialized, as update sees it
WorkingRepo(fsys, hd, source_dir_or_repo) ==
    IF ~IsDir(fsys[source_dir_or_repo]) THEN Absent
    ELSE IF dir_is_repo(fsys, source_dir_or_repo).res THEN fsys[source_dir_or_repo]
    ELSE IF hd.borg_dir_is_temp
    THEN extract_compressed_archive(fsys, hd.archive_path, hd.borg_dir, TRUE).fs[hd.borg_dir]
    ELSE fsys[hd.borg_dir]

Update(source_dir_or_repo, tag) ==
    /\ \E fail \in 0..3 :
         Finish(update(fs, h, source_dir_or_repo, tag, fail, made),
                [NoInv EXCEPT !.op = "update", !.arg = source_dir_or_repo, !.tag = tag,
                              !.clean = (fail = 0), !.src = fs[source_dir_or_repo],
                              !.pre = WorkingRepo(fs, h, source_dir_or_repo),
                              !.sync = IsDir(fs[source_dir_or_repo])
                                         /\ dir_is_repo(fs, source_dir_or_repo).res,
                              !.preArc = fs[ARCHIVE]])
    /\ UNCHANGED <<sidecar, mounted, mountedTag>>

\* the engine invocations of an operation in the order of its code; sets = the
\* call site calls __set_borg_environ before it runs the engine
Call(cmd, sets) == [cmd |-> cmd, sets |-> sets]

EngineCalls(op) ==
    CASE op = "enter"    -> <<Call("init", FALSE)>>
      [] op = "create"   -> <<Call("init", FALSE), Call("create", FALSE)>>
      [] op = "collapse" -> <<Call("init", FALSE), Call("info", TRUE), Call("delete", TRUE)>>
      [] op = "extract"  -> <<Call("list", TRUE), Call("extract", TRUE)>>
      [] op = "list"     -> <<Call("list", TRUE)>>
      [] op = "mount"    -> <<Call("list", TRUE), Call("mount", TRUE)>>
      [] op = "unmount"  -> <<Call("umount", FALSE), Call("info", TRUE)>>
      [] op = "update"   -> <<Call("init", FALSE), Call("list", TRUE), Call("create", TRUE)>>
      [] OTHER           -> <<>>

\* the engine invocations among cmds that ran while the two variables were not
\* set in os.environ (environ = they were set when the operation started; once
\* __set_borg_environ has run they stay set for the rest of the process)
Unsuppressed(op, cmds, environ) ==
    LET calls == EngineCalls(op)
        Ran(i) == \E e \in cmds : e[1] = calls[i].cmd
    IN  IF environ THEN {}
        ELSE {calls[i].cmd : i \in {k \in DOMAIN calls :
                 /\ Ran(k) /\ ~calls[k].sets
                 /\ \A j \in 1..(k - 1) : ~(Ran(j) /\ calls[j].sets)}}

\* the user changes the content of the source directory
ModifyData ==
    /\ pc = "idle"
    /\ \E c \in Contents \ {fs[DATA].files} : fs' = [fs EXCEPT ![DATA].files = c]
    /\ UNCHANGED <<sidecar, mounted, mountedTag, h, pc, inv, ran, collapsed, updates, made,
                   hasSquashfs>>
    /\ UNCHANGED tagVars

-----------------------------------------------------------------------------

\* The repository that "create <path> data" builds from the source directory, and
\* the archive file that "create a.baz data" leaves (create below, expanded or not);
\* these were made before the behaviour starts, at time 0.
CreatedRepo == BorgCreate(EmptyRepo, "1", PlainDir(1), 0)
CreatedArchive(squashfs) ==
    IF squashfs THEN Mksquashfs(CreatedRepo) ELSE TarCreate(CreatedRepo, "borg-repo")

\* The file system at the start: the source directory and, possibly, an archive
\* file and an expanded repository made by earlier runs of create.
Init ==
    /\ hasSquashfs \in BOOLEAN
    /\ \E arc \in BOOLEAN, rep \in BOOLEAN :
         fs = [p \in Paths |->
                 IF p = DATA THEN PlainDir(1)
                 ELSE IF p = ARCHIVE /\ arc THEN CreatedArchive(hasSquashfs)
                 ELSE IF p = REPO /\ rep THEN CreatedRepo
                 ELSE Absent]
    /\ sidecar = NoPath
    /\ mounted = NoPath
    /\ mountedTag = NoTag
    /\ h = NoHandle
    /\ pc = "idle"
    /\ inv = NoInv
    /\ ran = {}
    /\ made = 0
    /\ collapsed = NotCollapsed
    /\ updates = IF IsFile(fs[ARCHIVE]) THEN 0 ELSE -1
    /\ T = {}
    /\ genArg = NoTag
    /\ genRes = NotCalled
    /\ which = {"zstd"}
    /\ chosen = NotChosen
    /\ pipeline = NoPipeline
    /\ piped = NotRun

Next ==
    \/ \E a \in {NoPath, ARCHIVE, REPO, DATA} : Enter(a, NoPath)
    \/ Enter(ARCHIVE, REPO)
    \/ \E src \in {DATA, ARCHIVE} : \E e \in BOOLEAN : Create(src, e)
    \/ \E d \in {REPO, DATA} : \E retain \in BOOLEAN : Collapse(d, retain)
    \/ \E d \in {REPO} : Expand(d)
    \/ \E t \in {NoTag, "1"} : Extract(t)
    \/ ListTags
    \/ \E t \in {NoTag, "1"} : Mount(MNT, t)
    \/ Unmount(MNT)
    \/ \E t \in {NoTag, "0", "1"} : Update(DATA, t)
    \/ \E t \in {NoTag, "1"} : Update(REPO, t)
    \/ Update(ARCHIVE, NoTag)
    \/ Exit
    \/ Return
    \/ ModifyData

Spec == Init /\ [][Next]_vars

-----------------------------------------------------------------------------
(* generate_next_tag on its own: every registry over TagUniverse, every argument *)

GenerateNextTag(tag) ==
    /\ ~genRes.called
    /\ genArg' = tag
    /\ genRes' = [called |-> TRUE, ok |-> generate_next_tag(T, tag).ok,
                  tag |-> generate_next_tag(T, tag).tag]
    /\ UNCHANGED <<T, which, chosen, pipeline, piped>>
    /\ UNCHANGED mainVars

InitTag ==
    /\ fs = [p \in Paths |-> IF p = DATA THEN PlainDir(1) ELSE Absent]
    /\ hasSquashfs = FALSE
    /\ sidecar = NoPath
    /\ mounted = NoPath
    /\ mountedTag = NoTag
    /\ h = NoHandle
    /\ pc = "idle"
    /\ inv = NoInv
    /\ ran = {}
    /\ made = 0
    /\ collapsed = NotCollapsed
    /\ updates = -1
    /\ T \in SUBSET TagUniverse
    /\ genArg = NoTag
    /\ genRes = NotCalled
    /\ which = {"zstd"}
    /\ chosen = NotChosen
    /\ pipeline = NoPipeline
    /\ piped = NotRun

NextTag == \E tag \in TagUniverse \cup {NoTag} : GenerateNextTag(tag)

SpecTag == InitTag /\ [][NextTag]_vars

-----------------------------------------------------------------------------
(* Container format selection, for any set of installed tools *)

\* the selection __create_compressed_archive makes before it writes
ChooseForWriting ==
    /\ LET a == get_best_archiver(fs, NoPath)
           c == get_best_compressor(a)
       IN  chosen' = IF a = "tar"
                     THEN [mode |-> "write", archiver |-> a, compress |-> c.compress,
                           err |-> c.err]
                     ELSE [mode |-> "write", archiver |-> a, compress |-> "", err |-> ""]
    /\ UNCHANGED <<fs, hasSquashfs, which>>
    /\ UNCHANGED formatVars

\* the selection __extract_compressed_archive makes for the archive file
ChooseForReading ==
    /\ IsFile(fs[ARCHIVE])
    /\ chosen' = [mode |-> "read", archiver |-> get_best_archiver(fs, ARCHIVE),
                  compress |-> "", err |-> ""]
    /\ UNCHANGED <<fs, hasSquashfs, which>>
    /\ UNCHANGED formatVars

\* the repository directory is packed into the archive file with the tools at hand
WriteArchive ==
    /\ get_best_archiver(fs, NoPath) = "tar" => get_best_compressor("tar").ok
    /\ fs' = create_compressed_archive(fs, ARCHIVE, REPO, TRUE).fs
    /\ chosen' = NotChosen
    /\ UNCHANGED <<hasSquashfs, which>>
    /\ UNCHANGED formatVars

\* tools are installed or removed between two runs
ChangeTools ==
    /\ \E sq \in BOOLEAN, w \in SUBSET Compressors :
         /\ <<sq, w>> # <<hasSquashfs, which>>
         /\ hasSquashfs' = sq
         /\ which' = w
    /\ chosen' = NotChosen
    /\ UNCHANGED fs
    /\ UNCHANGED formatVars

InitFormat ==
    /\ hasSquashfs \in BOOLEAN
    /\ which \in SUBSET Compressors
    /\ \E a \in {Absent, Partial} :
         fs = [p \in Paths |->
                 IF p = DATA THEN PlainDir(1)
                 ELSE IF p = REPO THEN CreatedRepo
                 ELSE IF p = ARCHIVE THEN a
                 ELSE Absent]
    /\ sidecar = NoPath
    /\ mounted = NoPath
    /\ mountedTag = NoTag
    /\ h = NoHandle
    /\ pc = "idle"
    /\ inv = NoInv
    /\ ran = {}
    /\ made = 0
    /\ collapsed = NotCollapsed
    /\ updates = -1
    /\ T = {}
    /\ genArg = NoTag
    /\ genRes = NotCalled
    /\ chosen = NotChosen
    /\ pipeline = NoPipeline
    /\ piped = NotRun

NextFormat ==
    \/ ChooseForWriting
    \/ ChooseForReading
    \/ WriteArchive
    \/ ChangeTools

SpecFormat == InitFormat /\ [][NextFormat]_vars

-----------------------------------------------------------------------------
(* Pipelines, for any exit codes of the stages *)

RunPipeline ==
    /\ ~piped.called
    /\ piped' = run_pipeline(pipeline.codes, pipeline.check, pipeline.suppress_stderr)
    /\ UNCHANGED <<pipeline, T, genArg, genRes, which, chosen>>
    /\ UNCHANGED mainVars

InitPipeline ==
    /\ fs = [p \in Paths |-> IF p = DATA THEN PlainDir(1) ELSE Absent]
    /\ hasSquashfs = FALSE
    /\ sidecar = NoPath
    /\ mounted = NoPath
    /\ mountedTag = NoTag
    /\ h = NoHandle
    /\ pc = "idle"
    /\ inv = NoInv
    /\ ran = {}
    /\ made = 0
    /\ collapsed = NotCollapsed
    /\ updates = -1
    /\ T = {}
    /\ genArg = NoTag
    /\ genRes = NotCalled
    /\ which = {"zstd"}
    /\ chosen = NotChosen
    /\ \E n \in 1..MaxStages : \E codes \in [1..n -> ExitCodes] :
       \E check \in BOOLEAN, suppress_stderr \in BOOLEAN :
         pipeline = [codes |-> codes, check |-> check, suppress_stderr |-> suppress_stderr]
    /\ piped = NotRun

NextPipeline == RunPipeline

SpecPipeline == InitPipeline /\ [][NextPipeline]_vars

-----------------------------------------------------------------------------
(* Properties *)

\* the repository sub-path of a scratch directory, and the scratch directory of one
ScratchRepoOf(dir) == ScratchRepos[CHOOSE i \in Scratch : ScratchDirs[i] = dir]
ScratchDirOf(repo) == ScratchDirs[CHOOSE i \in Scratch : ScratchRepos[i] = repo]
IsScratchRepo(p) == \E i \in Scratch : ScratchRepos[i] = p

Compressions == {e \in ran : e[1] \in {"tar-c", "mksquashfs"}}
Snapshots == {e \in ran : e[1] = "create"}

\* what expanding an archive file into a fresh directory gives
Expanded(fsys, archive_path) ==
    extract_compressed_archive([fsys EXCEPT ![NONE] = EmptyDir], archive_path, NONE, TRUE).fs[NONE]

\* an invocation is over: the with statement has been left
Over(op) == pc = "exited" /\ inv.op = op

\* C1: after a successful collapse(repo_dir, retain_repo=true) on a controller bound
\* only to an archive file, once the scope has exited, repo_dir is still a
\* repository with the tags it had before and the archive file exists.
C1_RetainedRepoSurvives ==
    (Over("collapse") /\ inv.flag /\ inv.err = "" /\ inv.temp /\ inv.ctor = ARCHIVE)
        => /\ fs[inv.arg].kind = "repo"
           /\ fs[inv.arg].tags = inv.pre.tags
           /\ IsFile(fs[ARCHIVE])

\* C2: after a successful mount of an archive-backed handle and a later successful
\* unmount, neither invocation's scratch directory nor the sidecar file exists.
C2_MountUnmountLeavesNothing ==
    (Over("unmount") /\ inv.err = "" /\ inv.side # NoPath /\ inv.mtd = inv.side
        /\ IsScratchRepo(inv.side))
        => /\ fs[ScratchDirOf(inv.side)].kind = "absent"
           /\ fs[inv.side].kind = "absent"
           /\ fs[inv.scratch].kind = "absent"
           /\ sidecar = NoPath

\* update has run with a tag that its working repository already held
DuplicateTagUpdate ==
    /\ pc \in {"done", "exited"}
    /\ inv.op = "update"
    /\ inv.pre.kind = "repo"
    /\ inv.tag # NoTag
    /\ inv.tag \in NameSet(inv.pre.tags)

\* C3: update(source, tag), the source a directory that is no repository and the
\* tag already present in the working repository (which is not locked), fails with
\* the error kind DuplicateTagException.
C3_DuplicateTagKind ==
    (DuplicateTagUpdate /\ ~inv.sync /\ ~inv.pre.lock /\ IsFile(inv.preArc))
        => inv.err = "DuplicateTagException"

\* what "fails and changes nothing" means for an update
UpdateChangedNothing ==
    /\ inv.err # ""
    /\ Snapshots = {}
    /\ Compressions = {}
    /\ fs[ARCHIVE] = inv.preArc
    /\ (~inv.temp => fs[inv.repo].tags = inv.pre.tags)
    /\ (fs[inv.repo].kind = "repo" => fs[inv.repo].tags = inv.pre.tags)

C5_NextTagIsSmallestFree ==
    (genRes.called /\ genArg = NoTag)
        => /\ genRes.ok
           /\ genRes.tag \notin T
           /\ \E n \in (Cardinality(T) + 1)..Len(Decimal) :
                /\ genRes.tag = Decimal[n]
                /\ \A m \in (Cardinality(T) + 1)..(n - 1) : Decimal[m] \in T

C5_Witness ==
    /\ genRes.called
    /\ genArg = NoTag
    /\ T = {"3", "4", "x"}
    /\ genRes.tag = "5"

\* C6: for a handle whose repository is temporary, once the scope of create (not
\* expanded), expand, extract, list_tags, update or of a failed mount has exited,
\* the temporary repository and the scratch directory are gone.
C6_TeardownRemovesScratch ==
    (/\ pc = "exited"
     /\ inv.temp
     /\ \/ inv.op \in {"expand", "extract", "list", "update"}
        \/ inv.op = "create" /\ ~inv.flag
        \/ inv.op = "mount" /\ inv.err # "")
        => /\ fs[inv.scratch].kind = "absent"
           /\ fs[ScratchRepoOf(inv.scratch)].kind = "absent"

C6_Witness ==
    /\ pc = "exited"
    /\ inv.temp
    /\ inv.op = "update"
    /\ inv.err = ""
    /\ Snapshots # {}
    /\ fs[inv.scratch].kind = "absent"

\* C7: when entering the scope fails with RepoError, the scratch directory made
\* for that acquisition does not exist afterwards.
C7_FailedEnterLeavesNoScratch ==
    (Over("enter") /\ inv.err = "RepoError") => fs[inv.scratch].kind = "absent"

\* C8: after a successful create(expanded=false), once the scope has exited, the
\* archive file holds a repository whose tag list is ["1"] and the backing
\* repository in the scratch directory is gone.
C8_CreateLeavesArchiveOnly ==
    (Over("create") /\ ~inv.flag /\ inv.err = "" /\ inv.ctor # NoPath)
        => /\ IsFile(fs[inv.ctor])
           /\ Expanded(fs, inv.ctor).kind = "repo"
           /\ Names(Expanded(fs, inv.ctor).tags) = <<"1">>
           /\ fs[inv.scratch].kind = "absent"
           /\ fs[ScratchRepoOf(inv.scratch)].kind = "absent"

C8_Witness ==
    /\ Over("create")
    /\ ~inv.flag
    /\ inv.err = ""
    /\ inv.ctor = ARCHIVE
    /\ IsFile(fs[ARCHIVE])

\* C9: when create(expanded=true) succeeds on a controller constructed with path P,
\* the repository initialized and snapshotted is at P with tag list ["1"], it
\* survives the exit of the scope, and no compression ran.
C9_ExpandedCreateIsAtP ==
    (Over("create") /\ inv.flag /\ inv.err = "" /\ inv.ctor # NoPath)
        => /\ {e[2] : e \in Snapshots} = {inv.ctor}
           /\ fs[inv.ctor].kind = "repo"
           /\ Names(fs[inv.ctor].tags) = <<"1">>
           /\ Compressions = {}

Canonical(n) == [i \in 1..n |-> str(i)]

\* C11: an archive file written by create and then taken through n successful
\* untagged updates, each in its own invocation, holds the tag list
\* "1", ..., str(n + 1) in that order.
C11_UntaggedUpdatesCount ==
    updates >= 0
        => /\ IsFile(fs[ARCHIVE])
           /\ Names(Expanded(fs, ARCHIVE).tags) = Canonical(updates + 1)

C11_Witness ==
    /\ updates = 2
    /\ pc = "exited"
    /\ Names(Expanded(fs, ARCHIVE).tags) = <<"1", "2", "3">>

\* an update has run
Updated == pc \in {"done", "exited"} /\ inv.op = "update"

\* the repository an update leaves: in the archive file for a temporary handle
UpdatedRepo == IF inv.temp THEN Expanded(fs, inv.ctor) ELSE fs[inv.repo]

\* the source of the update is a plain directory holding what the latest snapshot holds
SourceUnchanged ==
    /\ inv.src.kind = "dir"
    /\ inv.pre.kind = "repo"
    /\ Len(inv.pre.tags) > 0
    /\ inv.pre.tags[Len(inv.pre.tags)].content = inv.src.files

\* C12: an untagged update from a source directory whose contents are what the
\* previous tag captured succeeds (no external command failing, the repository
\* not locked) and adds exactly one tag, whose content is that of the previous tag.
C12_UnchangedSourceNewTag ==
    (/\ Updated /\ inv.tag = NoTag /\ ~inv.sync /\ inv.clean
     /\ SourceUnchanged /\ ~inv.pre.lock /\ ~IsDir(inv.preArc))
        => /\ inv.err = ""
           /\ Len(UpdatedRepo.tags) = Len(inv.pre.tags) + 1
           /\ SubSeq(UpdatedRepo.tags, 1, Len(inv.pre.tags)) = inv.pre.tags
           /\ UpdatedRepo.tags[Len(UpdatedRepo.tags)].content = inv.src.files
           /\ UpdatedRepo.tags[Len(UpdatedRepo.tags)].name \notin NameSet(inv.pre.tags)

C12_Witness ==
    /\ Updated /\ inv.tag = NoTag /\ ~inv.sync /\ inv.clean
    /\ SourceUnchanged
    /\ pc = "exited"
    /\ inv.temp
    /\ Names(UpdatedRepo.tags) = <<"1", "2">>
    /\ UpdatedRepo.tags[1].content = UpdatedRepo.tags[2].content

\* C13: a successful update(R), R a repository and an archive file bound, takes no
\* snapshot, leaves R as it was (also after the scope has exited) and writes an
\* archive file that holds R's tags.
C13_SyncFromRepo ==
    (Updated /\ inv.sync /\ inv.err = "" /\ inv.ctor = ARCHIVE /\ ~IsDir(inv.preArc))
        => /\ Snapshots = {}
           /\ fs[inv.arg] = inv.pre
           /\ IsFile(fs[ARCHIVE])
           /\ Expanded(fs, ARCHIVE).kind = "repo"
           /\ Expanded(fs, ARCHIVE).tags = inv.pre.tags

C13_Witness ==
    /\ Over("update") /\ inv.sync /\ inv.err = "" /\ inv.ctor = ARCHIVE
    /\ inv.temp
    /\ Len(inv.pre.tags) = 2
    /\ fs[inv.arg] = inv.pre

\* C14: update from a source directory that is no repository, the working
\* repository holding lock.roster, fails with UpdateError, takes no snapshot,
\* leaves the tags as they were and does not rewrite the archive file.
C14_LockedRepoRefusesUpdate ==
    (Updated /\ ~inv.sync /\ IsDir(inv.src) /\ inv.pre.kind = "repo" /\ inv.pre.lock)
        => /\ inv.err = "UpdateError"
           /\ UpdateChangedNothing

C14_Witness ==
    /\ Updated /\ ~inv.sync /\ IsDir(inv.src) /\ inv.pre.lock
    /\ inv.clean
    /\ inv.repo = REPO
    /\ mounted = REPO
    /\ inv.err = "UpdateError"

\* C15: from a successful mount on a temporary handle until the unmount of the
\* mount directory, the scratch repository and its scratch directory exist and the
\* .borg-repo sidecar holds the path of that scratch repository.
C15_MountKeepsScratchRepo ==
    (mounted # NoPath /\ IsScratchRepo(mounted))
        => /\ fs[mounted].kind = "repo"
           /\ Exists(fs[ScratchDirOf(mounted)])
           /\ sidecar = mounted

C15_Witness ==
    /\ mounted # NoPath
    /\ IsScratchRepo(mounted)
    /\ pc = "entered"
    /\ h.temp_dir # ScratchDirOf(mounted)

\* C16: dir_is_repo is true of the directory a successful expand or
\* create(expanded=true) produced, and false of every directory that is empty or
\* is not a repository.
C16_ProbeRecognisesRepos ==
    /\ (pc \in {"done", "exited"} /\ inv.op = "expand" /\ inv.err = "")
          => dir_is_repo(fs, inv.arg).res
    /\ (pc \in {"done", "exited"} /\ inv.op = "create" /\ inv.flag /\ inv.err = "")
          => dir_is_repo(fs, StrPath(inv.repo)).res
    /\ \A p \in Paths : (IsDir(fs[p]) /\ fs[p].kind # "repo") => ~dir_is_repo(fs, p).res

C16_Witness ==
    /\ pc = "done" /\ inv.op = "expand" /\ inv.err = ""
    /\ inv.pre.kind = "absent"
    /\ dir_is_repo(fs, inv.arg).res
    /\ IsEmptyDir(fs[ScratchRepoOf(inv.scratch)])
    /\ ~dir_is_repo(fs, ScratchRepoOf(inv.scratch)).res

\* C17: create and update given a source path that is not an existing directory
\* fail with ValidationError and run no external command: nothing is initialized,
\* probed, expanded or snapshotted and no archive file is written.
C17_ValidationFirst ==
    (pc \in {"done", "exited"} /\ inv.op \in {"create", "update"} /\ ~IsDir(inv.src))
        => /\ inv.err = "ValidationError"
           /\ inv.cmds = {}
           /\ fs[ARCHIVE] = inv.preArc
           /\ fs[inv.arg] = inv.src

C17_Witness ==
    /\ pc = "done"
    /\ inv.op = "create"
    /\ IsFile(inv.src)
    /\ inv.err = "ValidationError"

\* C18: collapse(repo_dir) on a repo_dir that does not pass the probe fails with
\* CollapseError; the archive file is neither created nor modified and nothing is
\* deleted.
C18_CollapseNeedsRepo ==
    (pc \in {"done", "exited"} /\ inv.op = "collapse" /\ inv.pre.kind # "repo")
        => /\ inv.err = "CollapseError"
           /\ fs[ARCHIVE] = inv.preArc
           /\ \A e \in inv.cmds : e[1] \notin {"tar-c", "mksquashfs", "delete"}
           /\ (Exists(inv.pre) => Exists(fs[inv.arg]))
           /\ (IsDir(inv.pre) => fs[inv.arg].files = inv.pre.files)

C18_Witness ==
    /\ pc = "done" /\ inv.op = "collapse"
    /\ inv.arg = DATA
    /\ inv.err = "CollapseError"
    /\ IsFile(fs[ARCHIVE])

\* C19: mount, unmount, extract, list_tags and expand, successful or failing,
\* leave the archive file exactly as it was.
C19_ReadOnlyOps ==
    (/\ pc \in {"done", "exited"}
     /\ inv.op \in {"mount", "unmount", "extract", "list", "expand"}
     /\ ~IsDir(inv.preArc))
        => fs[ARCHIVE] = inv.preArc

C19_Witness ==
    /\ Over("mount")
    /\ inv.err = ""
    /\ inv.temp
    /\ IsFile(fs[ARCHIVE])
    /\ mounted # NoPath

\* C20: extract and mount without a tag take the last element of the tag list of
\* the repository, whatever the tag names are; a temporary handle expands the
\* archive file first and resolves the tag in what it expanded.
C20_NoTagMeansLatest ==
    /\ (pc \in {"done", "exited"} /\ inv.op = "extract" /\ inv.tag = NoTag /\ inv.err = "")
          => /\ Len(inv.pre.tags) > 0
             /\ inv.out = inv.pre.tags[Len(inv.pre.tags)].content
             /\ (inv.temp => <<"expand", ScratchRepoOf(inv.scratch)>> \in inv.cmds)
    /\ (pc \in {"done", "exited"} /\ inv.op = "mount" /\ inv.tag = NoTag /\ inv.err = "")
          => /\ Len(inv.pre.tags) > 0
             /\ mountedTag = inv.pre.tags[Len(inv.pre.tags)].name
             /\ (inv.temp => <<"expand", ScratchRepoOf(inv.scratch)>> \in inv.cmds)

C20_Witness ==
    /\ pc = "done" /\ inv.op = "extract" /\ inv.tag = NoTag /\ inv.err = ""
    /\ Names(inv.pre.tags) = <<"1", "0">>
    /\ inv.pre.tags[1].content # inv.pre.tags[2].content
    /\ inv.out = inv.pre.tags[2].content

\* C21: on a repository whose tag list is empty, extract with no tag ends with
\* ExtractError and mount with no tag (on a free mount directory) with MountError;
\* neither borg extract nor borg mount is run, nothing lands in the output
\* directory, the mount directory stays unmounted and the handle is not marked
\* mounted.
EmptyTagList == inv.pre.kind = "repo" /\ Len(inv.pre.tags) = 0

C21_EmptyListFailsInDomain ==
    /\ (pc \in {"done", "exited"} /\ inv.op = "extract" /\ inv.tag = NoTag /\ EmptyTagList)
          => /\ inv.err = "ExtractError"
             /\ inv.out = 0
             /\ \A e \in inv.cmds : e[1] # "extract"
    /\ (/\ pc \in {"done", "exited"} /\ inv.op = "mount" /\ inv.tag = NoTag /\ EmptyTagList
        /\ inv.mtd = NoPath)
          => /\ inv.err = "MountError"
             /\ mounted = NoPath
             /\ \A e \in inv.cmds : e[1] # "mount"
             /\ (pc = "done" => ~h.is_mounted)

C21_Witness ==
    /\ pc = "done" /\ inv.op = "mount" /\ inv.tag = NoTag /\ EmptyTagList
    /\ inv.mtd = NoPath
    /\ inv.err = "MountError"
    /\ \E e \in inv.cmds : e[1] = "list"

\* C22: an operation that ran an external command and ended with an error ended
\* with its own domain error, a kind of BorgArchiveError: CreationError for create,
\* ExpandError for expand, ExtractError for extract, MountError for mount and
\* unmount, UpdateError for update, ArchiveError for list_tags and for collapse
\* once the compression was started; the repository delete of collapse is
\* best-effort and never makes collapse fail.
DomainError(op) ==
    CASE op = "create" -> "CreationError"
      [] op = "expand" -> "ExpandError"
      [] op = "extract" -> "ExtractError"
      [] op \in {"mount", "unmount"} -> "MountError"
      [] op = "update" -> "UpdateError"
      [] op \in {"list", "collapse"} -> "ArchiveError"
      [] OTHER -> ""

RanCommand == \E e \in inv.cmds : e[1] # "init" \/ inv.op = "create"

C23_EnvironSetBeforeEngine ==
    /\ (pc = "entered" /\ ~h.borg_dir_is_temp)
          => Unsuppressed("enter", {<<"init", h.borg_dir>>}, FALSE) = {}
    /\ (pc \in {"done", "exited"} /\ inv.op # "enter")
          => Unsuppressed(inv.op, inv.cmds, FALSE) = {}

\* C24: the container chosen for writing is squashfs exactly when mksquashfs is
\* installed; otherwise it is tar with the first installed compressor of zstd,
\* pigz, gzip, and CommandNotFoundError when none of the three is installed.
C24_WriteFormatByTools ==
    chosen.mode = "write"
      => /\ chosen.archiver = "squashfs" <=> hasSquashfs
         /\ chosen.archiver = "tar" <=> ~hasSquashfs
         /\ ~hasSquashfs =>
               /\ "zstd" \in which => chosen.compress = "zstd -9" /\ chosen.err = ""
               /\ ("zstd" \notin which /\ "pigz" \in which)
                     => chosen.compress = "pigz -9" /\ chosen.err = ""
               /\ (which = {"gzip"}) => chosen.compress = "gzip -9" /\ chosen.err = ""
               /\ (which = {}) => chosen.err = "CommandNotFoundError"

C24_Witness ==
    /\ chosen.mode = "write" /\ ~hasSquashfs
    /\ which = {"pigz", "gzip"}
    /\ chosen.compress = "pigz -9"

\* C25: the container chosen for reading an archive file is squashfs exactly when
\* the file starts with the squashfs magic, whatever tools are installed; a file
\* written as tar is read as tar and one written as squashfs as squashfs.
C25_ReadFormatByMagic ==
    chosen.mode = "read"
      => /\ chosen.archiver = "squashfs" <=> Magic(fs[ARCHIVE]) = "hsqs"
         /\ chosen.archiver = "tar" <=> Magic(fs[ARCHIVE]) # "hsqs"
         /\ fs[ARCHIVE].fmt \in {"tar", "squashfs"} => chosen.archiver = fs[ARCHIVE].fmt

C25_Witness ==
    /\ chosen.mode = "read" /\ hasSquashfs
    /\ fs[ARCHIVE].fmt = "tar" /\ fs[ARCHIVE].inner = "repo"
    /\ chosen.archiver = "tar"

\* C26: run_pipeline looks at the exit codes once every stage has terminated; with
\* check and a stage that exited non-zero it raises, naming the first such stage
\* and carrying the standard error of the last stage, or nothing when stderr is
\* suppressed; without check it never raises and returns the exit code of the last
\* stage.
FailedStages == {i \in 1..Len(pipeline.codes) : pipeline.codes[i] # 0}

C26_PipelineOutcome ==
    piped.called
      => /\ piped.waited = Len(pipeline.codes)
         /\ piped.raised <=> (pipeline.check /\ FailedStages # {})
         /\ piped.raised => /\ piped.cmd \in FailedStages
                             /\ \A i \in FailedStages : piped.cmd <= i
         /\ piped.stderr = IF pipeline.suppress_stderr THEN NoText
                            ELSE StageErr(Len(pipeline.codes))
         /\ ~pipeline.check => piped.returncode = pipeline.codes[Len(pipeline.codes)]

C26_Witness ==
    /\ piped.called /\ piped.raised
    /\ pipeline.codes = <<0, 2, 1>>
    /\ ~pipeline.suppress_stderr
    /\ piped.cmd = 2
    /\ piped.stderr = StageErr(3)

\* C27: unmount runs borg umount first; only with a sidecar file does it go on, to
\* read the recorded path, unmount squashfs, purge the engine's side-files, delete
\* the recorded directory and, last, remove the sidecar file; whenever unmount has
\* removed the sidecar file the directory it named is gone.
IsPrefix(s, t) == Len(s) <= Len(t) /\ s = SubSeq(t, 1, Len(s))

C27_UnmountOrder ==
    (pc \in {"done", "exited"} /\ inv.op = "unmount")
      => /\ IsPrefix(inv.steps, UnmountSteps)
         /\ Len(inv.steps) > 1 => inv.side # NoPath
         /\ (inv.err = "" /\ inv.side # NoPath) => inv.steps = UnmountSteps
         /\ (inv.side # NoPath /\ sidecar = NoPath) => ~Exists(fs[inv.side])

C27_Witness ==
    /\ pc = "done" /\ inv.op = "unmount" /\ inv.err = ""
    /\ inv.side # NoPath /\ sidecar = NoPath
    /\ inv.steps = UnmountSteps
    /\ ~Exists(fs[inv.side])

\* C28: create, extract, update and the compression step (in create, collapse and
\* update) leave the process in the working directory it was in at entry, when
\* their commands succeed and when they fail.
C28_WorkingDirectoryRestored ==
    (pc \in {"done", "exited"} /\ inv.op \in {"create", "extract", "update", "collapse"})
      => inv.cwd = CWD

C28_Witness ==
    /\ pc = "done" /\ inv.op = "create" /\ inv.err = "CreationError"
    /\ \E e \in inv.cmds : e[1] = "create"
    /\ \A e \in inv.cmds : e[1] \notin {"tar-c", "mksquashfs"}
    /\ inv.cwd = CWD

\* C29: when the compression step of collapse(repo_dir) has failed (ArchiveError),
\* repo_dir is, once the scope has exited, still a repository with the tags it had.
C29_FailedCollapseKeepsRepo ==
    (Over("collapse") /\ inv.err = "ArchiveError")
      => /\ fs[inv.arg].kind = "repo"
         /\ fs[inv.arg].tags = inv.pre.tags

\* C30: the probe dir_is_repo observes only: it leaves the file system as it found
\* it and answers the same when asked again; the path probed by scope entry, by
\* collapse and by update is afterwards what it was before.
ProbedPaths == {REPO, DATA, ARCHIVE}

C30_ProbeObservesOnly ==
    /\ \A p \in ProbedPaths :
          /\ dir_is_repo(fs, p).fs = fs
          /\ dir_is_repo(dir_is_repo(fs, p).fs, p).res = dir_is_repo(fs, p).res
    /\ (/\ pc \in {"done", "exited"}
        /\ \/ inv.op = "enter" /\ inv.err = "RepoError"
           \/ inv.op = "collapse" /\ inv.err = "CollapseError")
          => fs[inv.arg] = inv.pre

\* C31: whenever no invocation is in progress, a sidecar file in the mount
\* directory records a directory that exists.
C31_SidecarNamesExistingDir ==
    (pc \in {"idle", "exited"} /\ sidecar # NoPath) => Exists(fs[sidecar])

\* C32: a mount by a handle on a persistent repository writes no sidecar file; the
\* unmount that follows leaves the repository with the tags it had, and once it
\* is over no scratch directory of the mount or of the unmount invocation remains.
C32_PersistentMountLeavesNothing ==
    /\ (pc \in {"done", "exited"} /\ inv.op = "mount" /\ ~inv.temp /\ inv.err = "")
          => sidecar = inv.side
    /\ (/\ Over("unmount") /\ inv.err = ""
        /\ inv.mtd # NoPath /\ ~IsScratchRepo(inv.mtd)
        /\ made = 2)
          => /\ fs[inv.mtd].kind = "repo"
             /\ fs[inv.mtd].tags = inv.pre.tags
             /\ \A i \in Scratch : ~Exists(fs[ScratchDirs[i]])

\* C33: the error run_pipeline raises carries a non-zero exit status, the one of
\* the stage it names.
C33_ErrorCarriesFailedStatus ==
    (piped.called /\ piped.raised)
      => /\ piped.returncode # 0
         /\ piped.returncode = pipeline.codes[piped.cmd]

\* C34: an archive file that an update has written holds no lock file: update
\* never compresses a locked repository, in the sync path as in the snapshot path.
C34_UpdateWritesNoLockedArchive ==
    (/\ pc \in {"done", "exited"} /\ inv.op = "update" /\ inv.err = ""
     /\ \E e \in inv.cmds : e[1] \in {"tar-c", "mksquashfs"})
      => (IsFile(fs[inv.ctor]) => ~fs[inv.ctor].lock)

\* C35: when borg umount fails, unmount ends with MountError and has changed
\* nothing: the mount, the sidecar file and the directory it records are as they
\* were (inv.pre and inv.src are what was mounted and what the sidecar recorded
\* when unmount was called), also once the scope has exited; an unmount of a mount
\* directory that does not exist ends with MountError and runs no command.
UmountFailed ==
    /\ pc \in {"done", "exited"} /\ inv.op = "unmount"
    /\ inv.steps = <<"borg umount">> /\ inv.err # ""

C35_FailedUmountChangesNothing ==
    /\ UmountFailed
          => /\ inv.err = "MountError"
             /\ sidecar = inv.side
             /\ mounted = inv.mtd
             /\ inv.mtd # NoPath => fs[inv.mtd] = inv.pre
             /\ inv.side # NoPath => fs[inv.side] = inv.src
    /\ (pc = "done" /\ inv.op = "unmount" /\ ~Exists(fs[inv.arg]))
          => inv.err = "MountError" /\ inv.cmds = {}

C35_Witness ==
    /\ UmountFailed /\ pc = "exited"
    /\ inv.mtd # NoPath /\ inv.side = inv.mtd
    /\ sidecar = inv.side /\ fs[sidecar].kind = "repo"

====
